---------------------------- MODULE Spec2Model ----------------------------
(***************************************************************************)
(* A model of xmlfrob (src/xmlfrob.go): parseModifications, frobnicate,    *)
(* main and writeInplace.                                                  *)
(*                                                                         *)
(* Byte strings are sequences of pieces.  A piece is a run of bytes that   *)
(* the program never looks into; the bytes the program does look at ('/',  *)
(* '@', '=' in paths and modification strings, the final '>' of a tag in   *)
(* the output) are always pieces of their own, so that SplitN,             *)
(* LastIndexByte, Truncate and the last-byte test act on them exactly as   *)
(* the code does.  Names carry no namespace prefix.                        *)
(***************************************************************************)
EXTENDS Integers, Sequences, FiniteSets, TLC

VARIABLES
    pc,               \* where main is: "flags", "parse", "open", "frobnicate", "write",
                      \* "exit"; in writeInplace: "create", "copy", "sync", "stat",
                      \* "close", "check", "rename", "return"
    exitCode,         \* "none" while running; "0", "1" (os.Exit(1), log.Fatal), "panic"
    args,             \* flag.Args(): the modification strings
    modifications,    \* result of parseModifications
    inp,              \* the tokens decoder.RawToken has delivered so far
    ret,              \* what frobnicate returned: "none", "ok", "err"
    path,             \* frobnicate: path (bytes.Buffer)
    skip,             \* frobnicate: skip
    pluginNo,         \* frobnicate: pluginNo
    previousWasStart, \* frobnicate: previousWasStart
    outbytes,         \* frobnicate: outbytes (bytes.Buffer)
    encbuf,           \* frobnicate: bytes the encoder `out` holds until Flush
    tags,             \* frobnicate: the encoder's stack of open tags
    stdout,           \* bytes written to os.Stdout
    input,            \* main: input, "-" for standard input
    inplace,          \* main: inplace
    orig,             \* the file at the path `input`
    temp,             \* the file at the path input + ".tmp"
    werr,             \* writeInplace: err
    wret,             \* what writeInplace returned: "none", "nil", "err"
    hist              \* what the run did so far: files opened, created, removed, renamed,
                      \* and the errors logInformationalError printed

\* the variables of the files and of writeInplace
filevars == <<input, inplace, orig, temp, werr, wret>>

vars == <<pc, exitCode, args, modifications, inp, ret, path, skip, pluginNo,
          previousWasStart, outbytes, encbuf, tags, stdout, input, inplace, orig,
          temp, werr, wret, hist>>

-----------------------------------------------------------------------------
(* Bounds of the input domain *)

\* longest document, in tokens
MaxTokens == 18
\* most tokens other than start and end tags in a document
MaxOther == 1
\* most elements in a document besides the root and the elements of the plugin path
MaxFree == 1
\* most modification strings on a command line (parser specification)
MaxArgs == 2
\* most modifications on a command line (matching loop)
MaxMods == 2
\* most attributes of a start tag (matching loop)
MaxAttrs == 2
\* longest token stream of the raw lexer
MaxRaw == 4
\* longest modification string, in pieces (parser specification)
MaxStrLen == 2

-----------------------------------------------------------------------------
(* Sequences *)

Last(s) == s[Len(s)]

Front(s) == SubSeq(s, 1, Len(s) - 1)

\* index of the first piece of s equal to c, 0 when there is none
IndexOf(s, c) ==
    IF \E i \in 1..Len(s) : s[i] = c
    THEN CHOOSE i \in 1..Len(s) : s[i] = c /\ \A j \in 1..(i - 1) : s[j] # c
    ELSE 0

\* bytes.LastIndexByte, 1-based: index of the last piece equal to c, 0 when none
LastIndexOf(s, c) ==
    IF \E i \in 1..Len(s) : s[i] = c
    THEN CHOOSE i \in 1..Len(s) : s[i] = c /\ \A j \in (i + 1)..Len(s) : s[j] # c
    ELSE 0

RECURSIVE Concat(_)
Concat(ss) == IF ss = <<>> THEN <<>> ELSE Head(ss) \o Concat(Tail(ss))

\* all sequences over S of length at most n
SeqsUpTo(S, n) == UNION {[1..k -> S] : k \in 0..n}

-----------------------------------------------------------------------------
(* parseModifications *)

\* strings.SplitN(s, sep, 2)
SplitN2(s, sep) ==
    LET i == IndexOf(s, sep)
    IN  IF i = 0 THEN <<s>>
        ELSE <<SubSeq(s, 1, i - 1), SubSeq(s, i + 1, Len(s))>>

\* a test that wants exactly one '@' before the first '='
InvalidModOneAt(mod) ==
    LET pathAttrValue == SplitN2(mod, "=")
        head == pathAttrValue[1]
    IN  \/ Len(pathAttrValue) # 2
        \/ Cardinality({i \in 1..Len(head) : head[i] = "@"}) # 1

\* a test that also wants a path that is not empty
InvalidModEmptyPath(mod) ==
    LET pathAttrValue == SplitN2(mod, "=")
        pathAttr == SplitN2(pathAttrValue[1], "@")
    IN  Len(pathAttrValue) # 2 \/ Len(pathAttr) # 2 \/ pathAttr[1] = <<>>

\* the test of line 62 on one modification string
InvalidMod(mod) ==
    LET pathAttrValue == SplitN2(mod, "=")
        pathAttr == SplitN2(pathAttrValue[1], "@")
    IN  Len(pathAttrValue) # 2 \/ Len(pathAttr) # 2

\* the struct of a parser that splits at every '=' and keeps the second field
ParseModSplitAll(mod) ==
    LET pathAttrValue == SplitN2(mod, "=")
        pathAttr == SplitN2(pathAttrValue[1], "@")
    IN  [path |-> pathAttr[1], attribute |-> pathAttr[2],
         value |-> SplitN2(pathAttrValue[2], "=")[1]]

\* the struct built at lines 66-70 from one valid modification string
ParseMod(mod) ==
    LET pathAttrValue == SplitN2(mod, "=")
        pathAttr == SplitN2(pathAttrValue[1], "@")
    IN  [path |-> pathAttr[1], attribute |-> pathAttr[2], value |-> pathAttrValue[2]]

\* parseModifications: the modifications, or the error naming the first bad string
parseModifications(modStrings) ==
    IF \E i \in 1..Len(modStrings) : InvalidMod(modStrings[i])
    THEN LET bad == CHOOSE i \in 1..Len(modStrings) :
                       /\ InvalidMod(modStrings[i])
                       /\ \A j \in 1..(i - 1) : ~InvalidMod(modStrings[j])
         IN  [err |-> TRUE, mods |-> <<>>, invalid |-> modStrings[bad]]
    ELSE [err |-> FALSE,
          mods |-> [i \in 1..Len(modStrings) |-> ParseMod(modStrings[i])],
          invalid |-> <<>>]

-----------------------------------------------------------------------------
(* Tokens (encoding/xml) *)

StartElement(name, attr) == [kind |-> "start", name |-> name, attr |-> attr, data |-> ""]

EndElement(name) == [kind |-> "end", name |-> name, attr |-> <<>>, data |-> ""]

CharData(data) == [kind |-> "chardata", name |-> "", attr |-> <<>>, data |-> data]

Comment(data) == [kind |-> "comment", name |-> "", attr |-> <<>>, data |-> data]

\* the token RawToken could not produce: err is not nil and not io.EOF
SyntaxError == [kind |-> "error", name |-> "", attr |-> <<>>, data |-> ""]

\* xml.Attr: the local name, one piece, and the value, a string
Attr(name, value) == [name |-> name, value |-> value]

\* the path literal of lines 100 and 158
PluginPath ==
    <<"/", "project", "/", "profiles", "/", "profile", "/", "build",
      "/", "plugins", "/", "plugin">>

-----------------------------------------------------------------------------
(* The encoder: what xml.Encoder.EncodeToken writes for a token *)

\* xml.EscapeText on character data: '<', '>' and '&' are written as entities
EscapeText(data) ==
    CASE data = ">" -> "&gt;"
      [] data = "<" -> "&lt;"
      [] data = "&" -> "&amp;"
      [] OTHER -> data

\* an attribute is written as name="value", the value escaped
RECURSIVE EncodeAttrs(_)
EncodeAttrs(attr) ==
    IF attr = <<>> THEN <<>>
    ELSE <<Head(attr).name, "=\"">>
             \o [i \in 1..Len(Head(attr).value) |-> EscapeText(Head(attr).value[i])]
             \o <<"\"">> \o EncodeAttrs(Tail(attr))

\* the bytes of a token; the '>' that ends a tag or a comment is a piece of its own
EncodeBytes(tok) ==
    CASE tok.kind = "start" -> <<"<", tok.name>> \o EncodeAttrs(tok.attr) \o <<">">>
      [] tok.kind = "end" -> <<"</", tok.name, ">">>
      [] tok.kind = "comment" -> <<"<!--", tok.data, "--", ">">>
      [] OTHER -> <<EscapeText(tok.data)>>

\* Encoder.EncodeToken refuses an end tag that does not close the open tag
EncodeFails(f, tok) ==
    tok.kind = "end" /\ (f.tags = <<>> \/ Last(f.tags) # tok.name)

\* out.EncodeToken(tok) when it succeeds: the bytes go to the encoder's buffer
EncodeToken(f, tok) ==
    [f EXCEPT !.encbuf = @ \o EncodeBytes(tok),
              !.tags = CASE tok.kind = "start" -> Append(@, tok.name)
                         [] tok.kind = "end" -> Front(@)
                         [] OTHER -> @]

\* out.Flush()
Flush(f) == [f EXCEPT !.outbytes = @ \o f.encbuf, !.encbuf = <<>>]

-----------------------------------------------------------------------------
(* The decoder: the tokens xml.Decoder.RawToken reads from bytes *)

\* the inverse of EscapeText, applied by the decoder to text and attribute values
UnescapeText(piece) ==
    CASE piece = "&gt;" -> ">"
      [] piece = "&lt;" -> "<"
      [] piece = "&amp;" -> "&"
      [] OTHER -> piece

Markup == {"<", "</", "<!--", "--", ">", "/>", "=\"", "\""}

\* b holds attributes only: name="value" any number of times
RECURSIVE AttrsWellFormed(_)
AttrsWellFormed(b) ==
    \/ b = <<>>
    \/ /\ Len(b) >= 3
       /\ b[1] \notin Markup
       /\ b[2] = "=\""
       /\ LET q == IndexOf(b, "\"")
          IN  /\ q > 2
              /\ \A i \in 3..(q - 1) : b[i] \notin {"<", "</", "<!--"}
              /\ AttrsWellFormed(SubSeq(b, q + 1, Len(b)))

RECURSIVE DecodeAttrs(_)
DecodeAttrs(b) ==
    IF b = <<>> THEN <<>>
    ELSE LET q == IndexOf(b, "\"")
         IN  <<Attr(b[1], [i \in 1..(q - 3) |-> UnescapeText(b[i + 2])])>>
                 \o DecodeAttrs(SubSeq(b, q + 1, Len(b)))

\* index of the piece that closes the tag opened at b[1], 0 when there is none
TagClose(b) ==
    IF \E i \in 1..Len(b) : b[i] \in {">", "/>"}
    THEN CHOOSE i \in 1..Len(b) :
            b[i] \in {">", "/>"} /\ \A j \in 1..(i - 1) : b[j] \notin {">", "/>"}
    ELSE 0

\* the tokens of the bytes b, ending with SyntaxError where b is not well formed;
\* an element written <name/> is a start token and an end token
RECURSIVE Tokenize(_)
Tokenize(b) ==
    IF b = <<>> THEN <<>>
    ELSE LET rest(n) == Tokenize(SubSeq(b, n, Len(b)))
             close == TagClose(b)
         IN  CASE b[1] = "<" ->
                    IF close < 3 \/ b[2] \in Markup
                          \/ ~AttrsWellFormed(SubSeq(b, 3, close - 1))
                    THEN <<SyntaxError>>
                    ELSE <<StartElement(b[2], DecodeAttrs(SubSeq(b, 3, close - 1)))>>
                           \o (IF b[close] = "/>" THEN <<EndElement(b[2])>> ELSE <<>>)
                           \o rest(close + 1)
               [] b[1] = "</" ->
                    IF Len(b) >= 3 /\ b[2] \notin Markup /\ b[3] = ">"
                    THEN <<EndElement(b[2])>> \o rest(4)
                    ELSE <<SyntaxError>>
               [] b[1] = "<!--" ->
                    IF Len(b) >= 4 /\ b[2] \notin Markup /\ b[3] = "--" /\ b[4] = ">"
                    THEN <<Comment(b[2])>> \o rest(5)
                    ELSE <<SyntaxError>>
               [] OTHER -> <<CharData(UnescapeText(b[1]))>> \o rest(2)

-----------------------------------------------------------------------------
(* frobnicate: one iteration of the loop, on the frame f of its locals *)

\* the frame after lines 79-86
NewFrame ==
    [path |-> <<>>, skip |-> FALSE, pluginNo |-> 0, previousWasStart |-> FALSE,
     outbytes |-> <<>>, encbuf |-> <<>>, tags |-> <<>>, ret |-> "none", exit |-> "none"]

\* return nil, err
ReturnErr(f) == [f EXCEPT !.ret = "err"]

Panic(f) == [f EXCEPT !.exit = "panic"]

\* a modification that replaces the first attribute of that name only
ApplyModFirstOnly(attr, pat) ==
    [i \in 1..Len(attr) |->
        IF /\ <<attr[i].name>> = pat.attribute
           /\ \A j \in 1..(i - 1) : attr[j].name # attr[i].name
        THEN Attr(attr[i].name, pat.value) ELSE attr[i]]

\* lines 107-111: one modification applied to the attributes of a start tag
ApplyMod(attr, pat) ==
    [i \in 1..Len(attr) |->
        IF <<attr[i].name>> = pat.attribute THEN Attr(attr[i].name, pat.value) ELSE attr[i]]

\* modifications applied whatever the path of the element
RECURSIVE ApplyModsAnyPath(_, _, _)
ApplyModsAnyPath(attr, p, mods) ==
    IF mods = <<>> THEN attr
    ELSE ApplyModsAnyPath(ApplyMod(attr, Head(mods)), p, Tail(mods))

\* modifications applied from the last to the first: the first one wins
RECURSIVE ApplyModsReversed(_, _, _)
ApplyModsReversed(attr, p, mods) ==
    IF mods = <<>> THEN attr
    ELSE LET rest == ApplyModsReversed(attr, p, Tail(mods))
         IN  IF p = Head(mods).path THEN ApplyMod(rest, Head(mods)) ELSE rest

\* lines 105-113: all modifications, in list order
RECURSIVE ApplyMods(_, _, _)
ApplyMods(attr, p, mods) ==
    IF mods = <<>> THEN attr
    ELSE ApplyMods(IF p = Head(mods).path THEN ApplyMod(attr, Head(mods)) ELSE attr,
                   p, Tail(mods))

\* lines 100-103
SkipRule(f) ==
    IF f.path = PluginPath
    THEN [f EXCEPT !.skip = (f.pluginNo = 0 \/ f.pluginNo = 1), !.pluginNo = @ + 1]
    ELSE f

\* a start tag that leaves the path alone inside a suppressed element
OnStartElementSkipNoPush(f, tok, mods) ==
    LET f1 == [f EXCEPT !.path = @ \o <<"/", tok.name>>]
        f2 == SkipRule(f1)
        tok2 == [tok EXCEPT !.attr = ApplyMods(tok.attr, f2.path, mods)]
        f3 == [f2 EXCEPT !.previousWasStart = TRUE]
    IN  IF f.skip THEN [f EXCEPT !.previousWasStart = TRUE]
        ELSE IF f3.skip THEN f3 ELSE EncodeToken(f3, tok2)

\* case xml.StartElement, lines 96-120
OnStartElement(f, tok, mods) ==
    LET f1 == [f EXCEPT !.path = @ \o <<"/", tok.name>>]
        f2 == SkipRule(f1)
        tok2 == [tok EXCEPT !.attr = ApplyMods(tok.attr, f2.path, mods)]
        f3 == [f2 EXCEPT !.previousWasStart = TRUE]
    IN  IF f3.skip THEN f3 ELSE EncodeToken(f3, tok2)

\* lines 126-149: the end tag of an element whose start tag was the previous token
SelfClose(f, tok) ==
    LET f1 == Flush(f)
        pos == Len(f1.outbytes) - 1
    IN  IF f1.outbytes = <<>> \/ Last(f1.outbytes) # ">" THEN Panic(f1)
        ELSE IF EncodeFails(f1, tok) THEN ReturnErr(f1)
        ELSE [Flush(EncodeToken(f1, tok)) EXCEPT
                  !.outbytes = SubSeq(f1.outbytes, 1, pos) \o <<"/>">>]

\* a reset that also restarts the count when the enclosing plugins element ends
SkipResetPerScope(f, cur) ==
    IF cur = PluginPath THEN [f EXCEPT !.skip = FALSE]
    ELSE IF cur = SubSeq(PluginPath, 1, Len(PluginPath) - 2) THEN [f EXCEPT !.pluginNo = 0]
    ELSE f

\* lines 158-160
SkipReset(f, cur) == IF cur = PluginPath THEN [f EXCEPT !.skip = FALSE] ELSE f

\* case xml.EndElement, lines 122-160
OnEndElement(f, tok) ==
    LET cur == f.path
        slash == LastIndexOf(f.path, "/")
        f1 == [f EXCEPT !.path = SubSeq(@, 1, slash - 1)]
        f2 == IF f1.previousWasStart THEN SelfClose(f1, tok)
              ELSE IF EncodeFails(f1, tok) THEN ReturnErr(f1)
              ELSE EncodeToken(f1, tok)
        f3 == IF f2.ret = "none" /\ f2.exit = "none"
              THEN [f2 EXCEPT !.previousWasStart = FALSE] ELSE f2
    IN  IF slash = 0 THEN Panic(f)
        ELSE IF f1.skip THEN SkipReset(f1, cur)
        ELSE IF f3.ret = "none" /\ f3.exit = "none" THEN SkipReset(f3, cur)
        ELSE f3

\* default, lines 162-168
OnOther(f, tok) ==
    LET f1 == [f EXCEPT !.previousWasStart = FALSE]
    IN  IF f1.skip THEN f1 ELSE EncodeToken(f1, tok)

\* lines 89-94 with err = io.EOF, then line 172
OnEOF(f) == [Flush(f) EXCEPT !.ret = "ok"]

\* a loop that ends on any error as it does on io.EOF
OnErrorBreak(f) == [Flush(f) EXCEPT !.ret = "ok"]

\* lines 89-94 with any other err: log.Fatalf ends the process with status 1
OnError(f) == [f EXCEPT !.exit = "1"]

\* one iteration of the loop of lines 87-170 on token tok
Iterate(f, tok, mods) ==
    CASE tok.kind = "start" -> OnStartElement(f, tok, mods)
      [] tok.kind = "end" -> OnEndElement(f, tok)
      [] tok.kind = "error" -> OnError(f)
      [] OTHER -> OnOther(f, tok)

\* frobnicate on a whole token stream that ends at end of file
RECURSIVE Loop(_, _, _)
Loop(f, toks, mods) ==
    IF f.ret # "none" \/ f.exit # "none" THEN f
    ELSE IF toks = <<>> THEN OnEOF(f)
    ELSE Loop(Iterate(f, Head(toks), mods), Tail(toks), mods)

frobnicate(toks, mods) == Loop(NewFrame, toks, mods)

-----------------------------------------------------------------------------
(* The input: the documents the decoder reads, token by token *)

Spine == {"project", "profiles", "profile", "build", "plugins", "plugin"}

\* the names an element may have as children in the documents considered
Children(name) ==
    CASE name = "project" -> {"profiles"}
      [] name = "profiles" -> {"profile"}
      [] name = "profile" -> {"build"}
      [] name = "build" -> {"plugins"}
      [] name = "plugins" -> {"plugin", "a"}
      [] name = "plugin" -> {"a"}
      [] name = "a" -> {"b"}
      [] OTHER -> {}

Roots == {"project", "a"}

\* the attribute lists an element may carry
AttrsOf(name) ==
    CASE name = "b" -> {<<>>, <<Attr("x", <<"1">>), Attr("y", <<"2">>)>>}
      [] name = "plugin" -> {<<Attr("x", <<"1">>)>>}
      [] OTHER -> {<<>>}

\* the elements that may hold character data and comments
TextParents == {"plugins", "a"}

TextData == {"t"}

\* for each token of toks, the names of the elements open after it, outermost first
RECURSIVE Stacks(_)
Stacks(toks) ==
    IF toks = <<>> THEN <<>>
    ELSE LET before == Stacks(Front(toks))
             o == IF before = <<>> THEN <<>> ELSE Last(before)
             t == Last(toks)
         IN  Append(before, CASE t.kind = "start" -> Append(o, t.name)
                              [] t.kind = "end" -> Front(o)
                              [] OTHER -> o)

\* the names of the elements open after the tokens toks, outermost first
RECURSIVE OpenStack(_)
OpenStack(toks) ==
    IF toks = <<>> THEN <<>>
    ELSE LET o == OpenStack(Front(toks))
             t == Last(toks)
         IN  CASE t.kind = "start" -> Append(o, t.name)
               [] t.kind = "end" -> Front(o)
               [] OTHER -> o

Count(toks, P(_)) == Cardinality({i \in 1..Len(toks) : P(toks[i])})

IsStart(t) == t.kind = "start"
IsFree(t) == t.kind = "start" /\ t.name \notin Spine \cup Roots
IsOther(t) == t.kind \in {"chardata", "comment"}

\* the start tags a well-formed document may continue with
NextStarts(toks) ==
    LET o == OpenStack(toks)
        names == IF o = <<>>
                 THEN (IF Count(toks, IsStart) = 0 THEN Roots ELSE {})
                 ELSE Children(Last(o))
        ok(n) == /\ Len(toks) + Len(o) + 2 <= MaxTokens
                 /\ n \in {"profiles", "profile", "build"} =>
                       Count(toks, LAMBDA t : IsStart(t) /\ t.name = n) = 0
                 /\ n \notin Spine \cup Roots => Count(toks, IsFree) < MaxFree
    IN  UNION {{StartElement(n, a) : a \in AttrsOf(n)} : n \in {m \in names : ok(m)}}

\* the character data and comments a document may continue with
NextOthers(toks) ==
    LET o == OpenStack(toks)
    IN  IF /\ o # <<>>
           /\ Last(o) \in TextParents
           /\ Count(toks, IsOther) < MaxOther
           /\ Len(toks) + Len(o) + 1 <= MaxTokens
        THEN {CharData(d) : d \in TextData} \cup {Comment("c")}
        ELSE {}

\* the end tag a well-formed document may continue with
NextEnds(toks) ==
    LET open == OpenStack(toks)
    IN  IF open = <<>> THEN {} ELSE {EndElement(Last(open))}

\* a well-formed document may end here
MayEnd(toks) == OpenStack(toks) = <<>> /\ Count(toks, IsStart) > 0

\* the command lines considered with documents
ArgLists ==
    {<<>>,
     <<<<"/", "a", "/", "b", "@", "x", "=", "v">>>>,
     <<PluginPath \o <<"@", "x", "=", "v">>>>}

\* the command lines considered by the specification of the parser alone
ParseAlphabet == {"a", "@", "="}

ParseArgLists ==
    SeqsUpTo(SeqsUpTo(ParseAlphabet, MaxStrLen), MaxArgs)
        \cup {<<<<"/foo/bar", "@", "attr", "=", "val">>>>,
              <<<<"/a", "@", "b", "@", "c", "=", "v">>>>,
              <<<<"foo", "=", "bar">>>>,
              <<<<"@", "attr", "=", "val">>>>,
              <<<<"/a", "@", "b", "=", "v">>, <<"/a", "@", "c", "=", "v", "=", "@", "w">>>>,
              <<<<"/a", "@", "b", "=", "v">>, <<"/a", "b", "=", "v">>, <<"/a", "@", "c", "=", "v">>>>}

-----------------------------------------------------------------------------
(* The state machine *)

Frame ==
    [path |-> path, skip |-> skip, pluginNo |-> pluginNo,
     previousWasStart |-> previousWasStart, outbytes |-> outbytes,
     encbuf |-> encbuf, tags |-> tags, ret |-> ret, exit |-> exitCode]

\* the variables of frobnicate take the values of frame f; main goes on from there
\* (lines 228-232: an error returned by frobnicate ends the run with status 1)
SetFrame(f) ==
    /\ path' = f.path
    /\ skip' = f.skip
    /\ pluginNo' = f.pluginNo
    /\ previousWasStart' = f.previousWasStart
    /\ outbytes' = f.outbytes
    /\ encbuf' = f.encbuf
    /\ tags' = f.tags
    /\ ret' = f.ret
    /\ exitCode' = IF f.ret = "err" THEN "1" ELSE f.exit
    /\ pc' = CASE f.ret = "err" \/ f.exit # "none" -> "exit"
               [] f.ret = "ok" -> "write"
               [] OTHER -> "frobnicate"

\* what a path of the file system holds: nothing, the contents the file had before
\* the run, or bytes the run wrote
NoFile == [kind |-> "absent", data |-> <<>>]

OldFile == [kind |-> "old", data |-> <<>>]

Written(data) == [kind |-> "written", data |-> data]

NoHist ==
    [opened |-> FALSE, created |-> FALSE, synced |-> FALSE, removed |-> FALSE,
     renamed |-> FALSE, logged |-> {}]

InitWith(argLists, inputs, inplaces, start) ==
    /\ pc = start
    /\ exitCode = "none"
    /\ args \in argLists
    /\ modifications = <<>>
    /\ inp = <<>>
    /\ ret = "none"
    /\ path = NewFrame.path
    /\ skip = NewFrame.skip
    /\ pluginNo = NewFrame.pluginNo
    /\ previousWasStart = NewFrame.previousWasStart
    /\ outbytes = NewFrame.outbytes
    /\ encbuf = NewFrame.encbuf
    /\ tags = NewFrame.tags
    /\ stdout = <<>>
    /\ input \in inputs
    /\ inplace \in inplaces
    /\ orig = IF input = "-" THEN NoFile ELSE OldFile
    /\ temp = NoFile
    /\ werr = "nil"
    /\ wret = "none"
    /\ hist = NoHist

\* xmlfrob --input f <PATTERNS...>, after the flags were read
Init == InitWith(ArgLists, {"f"}, {FALSE}, "parse")

InitParse == InitWith(ParseArgLists, {"f"}, {FALSE}, "parse")

\* main, lines 202-205
MainFlags ==
    /\ pc = "flags"
    /\ IF inplace /\ input = "-"
       THEN pc' = "exit" /\ exitCode' = "1"
       ELSE pc' = "parse" /\ UNCHANGED exitCode
    /\ UNCHANGED <<args, modifications, inp, ret, path, skip, pluginNo, previousWasStart,
                   outbytes, encbuf, tags, stdout, hist>>
    /\ UNCHANGED filevars

\* a main that goes on when parseModifications fails
MainParseGoesOn ==
    /\ pc = "parse"
    /\ LET r == parseModifications(args)
       IN  /\ pc' = "open"
           /\ modifications' = r.mods
           /\ UNCHANGED exitCode
    /\ UNCHANGED <<args, inp, ret, path, skip, pluginNo, previousWasStart,
                   outbytes, encbuf, tags, stdout, hist>>
    /\ UNCHANGED filevars

\* main, lines 207-211
MainParse ==
    /\ pc = "parse"
    /\ LET r == parseModifications(args)
       IN  IF r.err
           THEN /\ pc' = "exit"
                /\ exitCode' = "1"
                /\ UNCHANGED modifications
           ELSE /\ pc' = "open"
                /\ modifications' = r.mods
                /\ UNCHANGED exitCode
    /\ UNCHANGED <<args, inp, ret, path, skip, pluginNo, previousWasStart,
                   outbytes, encbuf, tags, stdout, hist>>
    /\ UNCHANGED filevars

\* main, lines 213-226: the input is stdin or a file that opens
MainOpen ==
    /\ pc = "open"
    /\ pc' = "frobnicate"
    /\ hist' = [hist EXCEPT !.opened = (input # "-")]
    /\ UNCHANGED <<exitCode, args, modifications, inp, ret, path, skip, pluginNo,
                   previousWasStart, outbytes, encbuf, tags, stdout>>
    /\ UNCHANGED filevars

\* main, lines 218-221: os.Open fails, log.Fatal
MainOpenFails ==
    /\ pc = "open"
    /\ input # "-"
    /\ pc' = "exit"
    /\ exitCode' = "1"
    /\ UNCHANGED <<args, modifications, inp, ret, path, skip, pluginNo,
                   previousWasStart, outbytes, encbuf, tags, stdout, hist>>
    /\ UNCHANGED filevars

\* one iteration of the loop of frobnicate on the token tok
Step(tok) ==
    /\ pc = "frobnicate"
    /\ inp' = Append(inp, tok)
    /\ SetFrame(Iterate(Frame, tok, modifications))
    /\ UNCHANGED <<args, modifications, stdout, hist>>
    /\ UNCHANGED filevars

RawTokenStart == \E tok \in NextStarts(inp) : Step(tok)

RawTokenEnd == \E tok \in NextEnds(inp) : Step(tok)

RawTokenOther == \E tok \in NextOthers(inp) : Step(tok)

\* RawToken fails with an error that is not io.EOF
RawTokenError == Len(inp) < MaxTokens /\ Step(SyntaxError)

\* RawToken returns io.EOF: the loop ends, line 172
RawTokenEOF ==
    /\ pc = "frobnicate"
    /\ MayEnd(inp)
    /\ SetFrame(OnEOF(Frame))
    /\ UNCHANGED <<args, modifications, inp, stdout, hist>>
    /\ UNCHANGED filevars

\* main, lines 234-238 without --inplace: io.Copy(os.Stdout, outbuf)
MainWrite ==
    /\ pc = "write"
    /\ ~inplace
    /\ stdout' = outbytes
    /\ pc' = "exit"
    /\ exitCode' = "0"
    /\ UNCHANGED <<args, modifications, inp, ret, path, skip, pluginNo,
                   previousWasStart, outbytes, encbuf, tags, hist>>
    /\ UNCHANGED filevars

Next ==
    \/ MainParse
    \/ MainOpen
    \/ MainOpenFails
    \/ RawTokenStart
    \/ RawTokenEnd
    \/ RawTokenOther
    \/ RawTokenError
    \/ RawTokenEOF
    \/ MainWrite

Spec == Init /\ [][Next]_vars

NextParse == MainParse

SpecParse == InitParse /\ [][NextParse]_vars

-----------------------------------------------------------------------------
(* The matching loop on one start tag: any attributes, duplicates too *)

\* the modification strings considered with the matching loop
MatchStrings ==
    {<<"/", p, "@", a, "=", v>> : p \in {"a", "b"}, a \in {"x", "y"}, v \in {"v", "w"}}

MatchArgLists == SeqsUpTo(MatchStrings, MaxMods)

\* the start tags considered: the lexer does not reject a repeated attribute name
MatchTags ==
    {StartElement("a", attr) :
        attr \in SeqsUpTo({Attr("x", <<"1">>), Attr("y", <<"1">>)}, MaxAttrs)}

InitMatch == InitWith(MatchArgLists, {"f"}, {FALSE}, "parse")

\* the first token of the input is a start tag
RawTokenMatch == inp = <<>> /\ \E tok \in MatchTags : Step(tok)

NextMatch ==
    \/ MainParse
    \/ MainOpen
    \/ RawTokenMatch

SpecMatch == InitMatch /\ [][NextMatch]_vars

-----------------------------------------------------------------------------
(* The raw lexer: RawToken does not check that start and end tags balance *)

\* the tokens the raw lexer may deliver, in any order
RawTokens ==
    {StartElement("a", <<>>), StartElement("b", <<>>), EndElement("a"), EndElement("b"),
     CharData("t")}

InitRaw == InitWith({<<>>}, {"f"}, {FALSE}, "parse")

RawTokenAny == Len(inp) < MaxRaw /\ \E tok \in RawTokens : Step(tok)

\* RawToken returns io.EOF wherever the input ends
RawTokenEOFAny ==
    /\ pc = "frobnicate"
    /\ SetFrame(OnEOF(Frame))
    /\ UNCHANGED <<args, modifications, inp, stdout, hist>>
    /\ UNCHANGED filevars

NextRaw ==
    \/ MainParse
    \/ MainOpen
    \/ RawTokenAny
    \/ RawTokenEOFAny
    \/ MainWrite

SpecRaw == InitRaw /\ [][NextRaw]_vars

-----------------------------------------------------------------------------
(* main as a whole, with writeInplace *)

\* the command lines considered with whole runs
MainArgLists ==
    {<<>>,
     <<<<"/", "a", "/", "b", "@", "x", "=", "v">>>>,
     <<<<"foo", "=", "bar">>>>,
     <<<<"/", "a", "/", "b", "@", "x", "=", "v">>, <<"/", "a", "/", "b", "x", "=", "v">>>>}

\* the inputs considered with whole runs: two documents, and one the lexer fails on
MainDocs ==
    {<<StartElement("a", <<>>),
       StartElement("b", <<Attr("x", <<"1">>), Attr("y", <<"2">>)>>),
       EndElement("b"), EndElement("a")>>,
     <<StartElement("a", <<>>), CharData("t"), EndElement("a")>>,
     <<StartElement("a", <<>>), SyntaxError>>}

InitMain == InitWith(MainArgLists, {"-", "f"}, BOOLEAN, "flags")

\* main, line 228: frobnicate on the whole input
MainFrobnicate ==
    /\ pc = "frobnicate"
    /\ inp = <<>>
    /\ \E doc \in MainDocs :
          /\ inp' = doc
          /\ SetFrame(Loop(Frame, doc, modifications))
    /\ UNCHANGED <<args, modifications, stdout, hist>>
    /\ UNCHANGED filevars

\* main, lines 234-235: writeInplace(input, outbuf) is called
MainInplace ==
    /\ pc = "write"
    /\ inplace
    /\ pc' = "create"
    /\ UNCHANGED <<exitCode, args, modifications, inp, ret, path, skip, pluginNo,
                   previousWasStart, outbytes, encbuf, tags, stdout, hist>>
    /\ UNCHANGED filevars

\* writeInplace, lines 250-254: os.Create(tempname) creates or truncates the file,
\* or fails and writeInplace returns the error
Create ==
    /\ pc = "create"
    /\ \/ /\ temp' = Written(<<>>)
          /\ hist' = [hist EXCEPT !.created = TRUE]
          /\ pc' = "copy"
          /\ UNCHANGED wret
       \/ /\ wret' = "err"
          /\ pc' = "return"
          /\ UNCHANGED <<temp, hist>>
    /\ UNCHANGED <<exitCode, args, modifications, inp, ret, path, skip, pluginNo,
                   previousWasStart, outbytes, encbuf, tags, stdout, input, inplace,
                   orig, werr>>

\* writeInplace, line 256: io.Copy(output, contents) writes everything, or fails
\* after some of the bytes were written
Copy ==
    /\ pc = "copy"
    /\ \/ /\ temp' = Written(outbytes)
          /\ werr' = "nil"
          /\ pc' = "sync"
       \/ /\ \E n \in 0..Len(outbytes) : temp' = Written(SubSeq(outbytes, 1, n))
          /\ werr' = "copy"
          /\ pc' = "stat"
    /\ UNCHANGED <<exitCode, args, modifications, inp, ret, path, skip, pluginNo,
                   previousWasStart, outbytes, encbuf, tags, stdout, input, inplace,
                   orig, wret, hist>>

\* writeInplace, lines 257-259: output.Sync() after a copy without error
Sync ==
    /\ pc = "sync"
    /\ \/ /\ hist' = [hist EXCEPT !.synced = TRUE]
          /\ UNCHANGED werr
       \/ /\ werr' = "sync"
          /\ UNCHANGED hist
    /\ pc' = "stat"
    /\ UNCHANGED <<exitCode, args, modifications, inp, ret, path, skip, pluginNo,
                   previousWasStart, outbytes, encbuf, tags, stdout, input, inplace,
                   orig, temp, wret>>

\* the errors lines 261-271 may log: of os.Stat, or of Chmod and Chown
StatFailures == {{}, {"stat"}, {"chmod"}, {"chown"}, {"chmod", "chown"}}

\* writeInplace, lines 261-271: mode and owner are copied; every error is only logged
Stat ==
    /\ pc = "stat"
    /\ \E failed \in StatFailures : hist' = [hist EXCEPT !.logged = @ \cup failed]
    /\ pc' = "close"
    /\ UNCHANGED <<exitCode, args, modifications, inp, ret, path, skip, pluginNo,
                   previousWasStart, outbytes, encbuf, tags, stdout>>
    /\ UNCHANGED filevars

\* writeInplace, line 273: output.Close(); its error is only logged
Close ==
    /\ pc = "close"
    /\ \E failed \in {{}, {"close"}} : hist' = [hist EXCEPT !.logged = @ \cup failed]
    /\ pc' = "check"
    /\ UNCHANGED <<exitCode, args, modifications, inp, ret, path, skip, pluginNo,
                   previousWasStart, outbytes, encbuf, tags, stdout>>
    /\ UNCHANGED filevars

\* a writeInplace that renames whatever err holds
RenameAlways(err) == TRUE

\* writeInplace, line 275: os.Rename is reached only when err is nil
RenameAllowed(err) == err = "nil"

\* a failing path that leaves the temporary file alone
AfterFailureKeepsTemp(h, t, removeFails) == [hist |-> h, temp |-> t]

\* writeInplace, lines 276 and 282: logInformationalError(os.Remove(tempname)) on a
\* failing path; the removal may fail, which is only logged
AfterFailure(h, t, removeFails) ==
    [hist |-> [h EXCEPT !.removed = TRUE,
                        !.logged = IF removeFails THEN @ \cup {"remove"} ELSE @],
     temp |-> IF removeFails THEN t ELSE NoFile]

\* writeInplace, lines 275-278: the copy or the sync failed
WriteFailed ==
    /\ pc = "check"
    /\ ~RenameAllowed(werr)
    /\ \E removeFails \in BOOLEAN :
          LET after == AfterFailure(hist, temp, removeFails)
          IN  hist' = after.hist /\ temp' = after.temp
    /\ wret' = "err"
    /\ pc' = "return"
    /\ UNCHANGED <<exitCode, args, modifications, inp, ret, path, skip, pluginNo,
                   previousWasStart, outbytes, encbuf, tags, stdout, input, inplace,
                   orig, werr>>

\* writeInplace, lines 280-286: os.Rename(tempname, filename) replaces the original
\* in one step, or fails and leaves both files as they were
Rename ==
    /\ pc = "check"
    /\ RenameAllowed(werr)
    /\ \/ /\ orig' = temp
          /\ temp' = NoFile
          /\ hist' = [hist EXCEPT !.renamed = TRUE]
          /\ wret' = "nil"
          /\ UNCHANGED werr
       \/ /\ \E removeFails \in BOOLEAN :
                LET after == AfterFailure(hist, temp, removeFails)
                IN  hist' = after.hist /\ temp' = after.temp
          /\ werr' = "rename"
          /\ wret' = "err"
          /\ UNCHANGED orig
    /\ pc' = "return"
    /\ UNCHANGED <<exitCode, args, modifications, inp, ret, path, skip, pluginNo,
                   previousWasStart, outbytes, encbuf, tags, stdout, input, inplace>>

\* main, lines 240-243: the result of writeInplace decides the exit status
MainReturn ==
    /\ pc = "return"
    /\ pc' = "exit"
    /\ exitCode' = IF wret = "err" THEN "1" ELSE "0"
    /\ UNCHANGED <<args, modifications, inp, ret, path, skip, pluginNo,
                   previousWasStart, outbytes, encbuf, tags, stdout, hist>>
    /\ UNCHANGED filevars

NextMain ==
    \/ MainFlags
    \/ MainParse
    \/ MainOpen
    \/ MainOpenFails
    \/ MainFrobnicate
    \/ MainWrite
    \/ MainInplace
    \/ Create
    \/ Copy
    \/ Sync
    \/ Stat
    \/ Close
    \/ WriteFailed
    \/ Rename
    \/ MainReturn

SpecMain == InitMain /\ [][NextMain]_vars

\* main runs on until it exits: nothing in it waits
LiveMain == SpecMain /\ WF_vars(NextMain)

-----------------------------------------------------------------------------
(* What the properties speak about *)

\* the input read so far holds no lexing failure
WellFormedInput == \A i \in 1..Len(inp) : inp[i].kind # "error"

\* the path string of a stack of element names: /seg1/seg2/...
PathString(names) == Concat([k \in 1..Len(names) |-> <<"/", names[k]>>])

\* the start tags of toks whose traversal path is p
Matches(toks, p) ==
    LET st == Stacks(toks)
    IN  {i \in 1..Len(toks) : toks[i].kind = "start" /\ PathString(st[i]) = p}

\* the index of the end tag of the element that starts at toks[i]
ElemEnd(toks, i) ==
    LET depth(k) == Cardinality({j \in 1..k : toks[j].kind = "start"})
                       - Cardinality({j \in 1..k : toks[j].kind = "end"})
        ends == {k \in (i + 1)..Len(toks) : depth(k) < depth(i)}
    IN  IF ends = {} THEN Len(toks) + 1
        ELSE CHOOSE k \in ends : \A m \in ends : k <= m

\* the number of the element at toks[i] among the elements at the plugin path
PluginOrdinal(toks, i) == Cardinality({j \in Matches(toks, PluginPath) : j <= i})

\* toks[i] belongs to the first or the second element at the plugin path
InFirstTwo(toks, i) ==
    \E j \in Matches(toks, PluginPath) :
        j <= i /\ i <= ElemEnd(toks, j) /\ PluginOrdinal(toks, j) <= 2

RECURSIVE WithoutFirstTwoFrom(_, _)
WithoutFirstTwoFrom(toks, i) ==
    IF i > Len(toks) THEN <<>>
    ELSE (IF InFirstTwo(toks, i) THEN <<>> ELSE <<toks[i]>>)
             \o WithoutFirstTwoFrom(toks, i + 1)

\* toks without the subtrees of the first two elements at the plugin path
WithoutFirstTwo(toks) == WithoutFirstTwoFrom(toks, 1)

\* toks with every start tag's attributes as the modifications set them
Modified(toks, mods) ==
    LET st == Stacks(toks)
    IN  [i \in 1..Len(toks) |->
            IF toks[i].kind = "start"
            THEN [toks[i] EXCEPT !.attr = ApplyMods(@, PathString(st[i]), mods)]
            ELSE toks[i]]

\* the bytes of a token stream written as it stands, except that a start tag
\* directly followed by an end tag is written self-closing
RECURSIVE Reference(_)
Reference(toks) ==
    IF toks = <<>> THEN <<>>
    ELSE IF Len(toks) >= 2 /\ toks[1].kind = "start" /\ toks[2].kind = "end"
    THEN Front(EncodeBytes(toks[1])) \o <<"/>">> \o Reference(SubSeq(toks, 3, Len(toks)))
    ELSE EncodeBytes(toks[1]) \o Reference(Tail(toks))

\* the bytes b end with a start tag of element name
EndsWithStartTag(b, name) ==
    LET open == {i \in 1..Len(b) : b[i] \in {"<", "</", "<!--"}}
    IN  /\ open # {}
        /\ Last(b) = ">"
        /\ LET k == CHOOSE i \in open : \A j \in open : j <= i
           IN  b[k] = "<" /\ b[k + 1] = name

-----------------------------------------------------------------------------
(* Properties *)

\* C1: with no modifications, a pass over a well-formed document returns the
\* document as it was read, token for token in input order, except that a start
\* tag directly followed by its end tag is written self-closing: nothing is
\* dropped, nothing is added.
C1_PassThrough ==
    (modifications = <<>> /\ WellFormedInput /\ ret = "ok") => outbytes = Reference(inp)

\* C2: with one modification whose path is the traversal path of exactly one
\* element of a well-formed document, an element that carries the attribute,
\* the output holds that element with the attribute set to the modification's
\* value, and is otherwise the output of the pass without modifications.
C2_SingleMatch ==
    (/\ ret = "ok"
     /\ Len(modifications) = 1
     /\ Cardinality(Matches(inp, modifications[1].path)) = 1
     /\ \A i \in Matches(inp, modifications[1].path) :
           \E k \in 1..Len(inp[i].attr) : <<inp[i].attr[k].name>> = modifications[1].attribute)
    => LET m == modifications[1]
           out == Tokenize(outbytes)
           plain == Tokenize(frobnicate(inp, <<>>).outbytes)
       IN  /\ \E j \in Matches(out, m.path) :
                 \E k \in 1..Len(out[j].attr) :
                    <<out[j].attr[k].name>> = m.attribute /\ out[j].attr[k].value = m.value
           /\ Len(out) = Len(plain)
           /\ \A j \in 1..Len(out) :
                 \/ out[j] = plain[j]
                 \/ /\ j \in Matches(out, m.path)
                    /\ plain[j] = [out[j] EXCEPT !.attr = plain[j].attr]
                    /\ Len(out[j].attr) = Len(plain[j].attr)
                    /\ \A k \in 1..Len(out[j].attr) :
                          \/ out[j].attr[k] = plain[j].attr[k]
                          \/ /\ out[j].attr[k].name = plain[j].attr[k].name
                             /\ <<out[j].attr[k].name>> = m.attribute

\* C3: when the end tag of an element is emitted, the output written so far is
\* rewritten to the self-closing form only if it ends with that element's start
\* tag; otherwise the end tag is appended as a closing tag and no byte written
\* before is removed.
C3_SelfCloseOnlyAfterOwnStart ==
    [][(/\ pc = "frobnicate"
        /\ Len(inp') = Len(inp) + 1
        /\ Last(inp').kind = "end"
        /\ ~skip
        /\ WellFormedInput
        /\ ~EndsWithStartTag(outbytes \o encbuf, Last(inp').name))
       => outbytes' \o encbuf' = (outbytes \o encbuf) \o EncodeBytes(Last(inp'))]_vars

\* C4: the pass is idempotent: run on its own output with the same
\* modifications it succeeds and returns that output unchanged.
C4_Idempotent ==
    (ret = "ok" /\ WellFormedInput) =>
        LET again == frobnicate(Tokenize(outbytes), modifications)
        IN  again.ret = "ok" /\ again.outbytes = outbytes

\* C5: in a well-formed document with one plugins scope the first and the second
\* element at the plugin path, with their subtrees, contribute nothing to the
\* output, and every other token is emitted: read back, the output holds the
\* tokens of the document without those two subtrees, in order.
C5_FirstTwoDropped ==
    (/\ ret = "ok"
     /\ WellFormedInput
     /\ Cardinality(Matches(inp, SubSeq(PluginPath, 1, 10))) = 1)
    => Tokenize(outbytes) = WithoutFirstTwo(Modified(inp, modifications))

\* the path of the element that encloses the plugin elements
PluginsPath == SubSeq(PluginPath, 1, Len(PluginPath) - 2)

\* the elements at the plugin path that are open after the input read so far
OpenPlugins == {j \in Matches(inp, PluginPath) : ElemEnd(inp, j) > Len(inp)}

\* the number of the element at inp[j] among the plugin elements of its plugins scope
OrdinalInScope(j) ==
    Cardinality({k \in Matches(inp, PluginPath) :
                    /\ k <= j
                    /\ \A sc \in Matches(inp, PluginsPath) : sc < j => sc < k})

\* C6 as claimed: the count restarts with each plugins scope, so the first two
\* plugin elements of every scope are suppressed.
C6_PerScope ==
    \A j \in OpenPlugins : OrdinalInScope(j) <= 2 => skip

\* C6 as amended: the count is never reset during a pass. pluginNo counts every
\* element at the plugin path read so far, whatever its scope, and an element at
\* the plugin path is suppressed exactly when it is the first or the second such
\* element of the whole document.
C6_CountNeverReset ==
    LET plugins == Matches(inp, PluginPath)
    IN  /\ pluginNo = Cardinality(plugins)
        /\ skip <=> \E j \in plugins :
                       /\ Cardinality({k \in plugins : k <= j}) <= 2
                       /\ ElemEnd(inp, j) > Len(inp)

\* a second plugins scope whose first plugin element is open and not suppressed
C6_Witness ==
    /\ Cardinality(Matches(inp, PluginsPath)) = 2
    /\ \E j \in OpenPlugins : OrdinalInScope(j) = 1 /\ PluginOrdinal(inp, j) = 3
    /\ ~skip
    /\ pluginNo = 3

\* frobnicate was called and has ended
FrobnicateEnded == pc \in {"write", "exit"} /\ (ret # "none" \/ inp # <<>>)

\* no modification's path is the traversal path of an element of the input
NoMatch ==
    \A k \in 1..Len(modifications) : Matches(inp, modifications[k].path) = {}

\* the exit status main gives the outcome f of frobnicate before it writes
ExitOf(f) == IF f.ret = "err" THEN "1" ELSE f.exit

C8_ErrorResult == ~WellFormedInput => ret = "err"

\* C8 as amended: at a lexing failure other than end of stream the pass stops at
\* that token and frobnicate does not return: the process ends there with status
\* 1 and nothing reaches standard output. Only end of stream ends the loop
\* normally, with everything flushed and a successful result.
C8_LexErrorFatal ==
    /\ \A i \in 1..Len(inp) :
          inp[i].kind = "error" =>
             /\ i = Len(inp)
             /\ pc = "exit"
             /\ exitCode = "1"
             /\ ret = "none"
             /\ stdout = <<>>
    /\ ret = "ok" => (WellFormedInput /\ MayEnd(inp) /\ encbuf = <<>>)

\* a lexing failure after output was produced
C8_Witness ==
    /\ ~WellFormedInput
    /\ outbytes \o encbuf # <<>>
    /\ pc = "exit"

\* the number of '@' before the first '=' of a string that has an '='
AtsBeforeEq(mod) ==
    Cardinality({j \in 1..(IndexOf(mod, "=") - 1) : mod[j] = "@"})

HasEq(mod) == \E i \in 1..Len(mod) : mod[i] = "="

\* main ended because parseModifications failed
ParseFailed == pc = "exit" /\ exitCode = "1" /\ modifications = <<>>

\* C9 as claimed: parseModifications fails exactly when some string has no '='
\* or does not have exactly one '@' before its first '='.
C9_ExactlyOneAt ==
    pc # "parse" =>
        (ParseFailed <=> \E i \in 1..Len(args) : ~HasEq(args[i]) \/ AtsBeforeEq(args[i]) # 1)

\* C9 as amended: parseModifications fails exactly when some string has no '='
\* or has no '@' before its first '='; a string with two or more '@' before the
\* first '=' is accepted.
C9_AtLeastOneAt ==
    pc # "parse" =>
        (ParseFailed <=> \E i \in 1..Len(args) : ~HasEq(args[i]) \/ AtsBeforeEq(args[i]) = 0)

\* a command line accepted although a string has two '@' before its first '='
C9_Witness ==
    /\ pc = "open"
    /\ \E i \in 1..Len(args) : HasEq(args[i]) /\ AtsBeforeEq(args[i]) >= 2

\* C10: on success there is one modification per string, in order; value is all
\* that follows the first '=' of the string, and what precedes the first '=' is
\* path, '@', attribute, with no '@' in path. /foo/bar@attr=val gives path
\* /foo/bar, attribute attr, value val.
C10_SplitAtFirstEq ==
    pc = "open" =>
        /\ Len(modifications) = Len(args)
        /\ \A i \in 1..Len(args) :
              LET e == IndexOf(args[i], "=")
                  m == modifications[i]
              IN  /\ e > 0
                  /\ m.value = SubSeq(args[i], e + 1, Len(args[i]))
                  /\ m.path \o <<"@">> \o m.attribute = SubSeq(args[i], 1, e - 1)
                  /\ \A j \in 1..Len(m.path) : m.path[j] # "@"
        /\ args = <<<<"/foo/bar", "@", "attr", "=", "val">>>> =>
              modifications =
                  <<[path |-> <<"/foo/bar">>, attribute |-> <<"attr">>, value |-> <<"val">>]>>

\* two strings parsed, the second with a value that holds an '='
C10_Witness ==
    /\ pc = "open"
    /\ Len(modifications) = 2
    /\ modifications[1] # modifications[2]
    /\ \E j \in 1..Len(modifications[2].value) : modifications[2].value[j] = "="

-----------------------------------------------------------------------------
(* C11 *)

\* the string begins with '@' and has an '=' after it
EmptyPathString(mod) == mod # <<>> /\ Head(mod) = "@" /\ HasEq(mod)

\* C11 as claimed: parseModifications requires PATH to be non-empty, so no
\* modification it returns has an empty path.
C11_PathNonEmpty ==
    pc = "open" => \A i \in 1..Len(modifications) : modifications[i].path # <<>>

\* C11 as amended: parseModifications does not look at PATH. A command line whose
\* strings all begin with '@' and have an '=' is accepted, and every accepted
\* string that begins with '@' gives a modification with the empty path, whose
\* attribute is what stands between that '@' and the first '='.
C11_EmptyPathAccepted ==
    pc # "parse" =>
        /\ (\A i \in 1..Len(args) : EmptyPathString(args[i])) => ~ParseFailed
        /\ pc = "open" =>
               \A i \in 1..Len(args) :
                  EmptyPathString(args[i]) =>
                     /\ modifications[i].path = <<>>
                     /\ modifications[i].attribute =
                            SubSeq(args[i], 2, IndexOf(args[i], "=") - 1)

\* @attr=val was accepted
C11_Witness ==
    /\ pc = "open"
    /\ args = <<<<"@", "attr", "=", "val">>>>
    /\ modifications[1].path = <<>>
    /\ modifications[1].attribute = <<"attr">>

-----------------------------------------------------------------------------
(* C12 *)

\* some modification string of the command line is malformed
Malformed == \E i \in 1..Len(args) : InvalidMod(args[i])

\* the run has touched neither the input, nor standard output, nor any file
NoIO ==
    /\ ~hist.opened
    /\ inp = <<>>
    /\ ret = "none"
    /\ stdout = <<>>
    /\ ~hist.created
    /\ ~hist.renamed
    /\ temp = NoFile
    /\ orig = IF input = "-" THEN NoFile ELSE OldFile

\* C12: in every run of main with a malformed modification string the input is
\* never opened or read, nothing is written to standard output, no temporary
\* file is created, nothing is renamed, the status is never 0, and the run ends
\* with status 1.
C12_FailFast ==
    /\ [](Malformed => (NoIO /\ exitCode \in {"none", "1"}))
    /\ Malformed ~> (pc = "exit" /\ exitCode = "1")

\* a run with --inplace on a file that ended at the malformed string
C12_Witness ==
    /\ Malformed
    /\ inplace
    /\ input = "f"
    /\ Len(args) = 2
    /\ pc = "exit"
    /\ exitCode = "1"

-----------------------------------------------------------------------------
(* C13 *)

\* what the path `input` held when the run began
Original == IF input = "-" THEN NoFile ELSE OldFile

\* C13: the original path holds its old contents or the complete output, never
\* anything else; a rename has happened only after the whole output was copied
\* to the temporary file and synced without error; and when writeInplace returns
\* an error the original holds its old contents.
C13_Atomic ==
    /\ orig = Original \/ (ret = "ok" /\ orig = Written(outbytes))
    /\ hist.renamed => (hist.synced /\ werr = "nil" /\ orig = Written(outbytes))
    /\ wret = "err" => orig = Original

\* the output replaced the original although mode, owner or close failed
C13_Witness ==
    /\ hist.renamed
    /\ wret = "nil"
    /\ outbytes # <<>>
    /\ orig = Written(outbytes)
    /\ temp = NoFile
    /\ hist.logged # {}

-----------------------------------------------------------------------------
(* C14 *)

\* C14: when writeInplace returns an error after it created the temporary file,
\* it has attempted to remove that file; it returns an error only when Create,
\* the copy, the sync or the rename failed, so an error of Stat, Chmod, Chown,
\* Close or of the removal is only logged; and a run whose writeInplace returned
\* no error ends with status 0 whatever was logged.
C14_CleanupBeforeError ==
    /\ (wret = "err" /\ hist.created) => hist.removed
    /\ wret = "err" => (~hist.created \/ werr \in {"copy", "sync", "rename"})
    /\ hist.removed => wret = "err"
    /\ (wret = "nil" /\ pc = "exit") => exitCode = "0"

\* the rename failed and then the removal of the temporary file failed too
C14_Witness ==
    /\ wret = "err"
    /\ werr = "rename"
    /\ hist.removed
    /\ "remove" \in hist.logged
    /\ temp = Written(outbytes)
    /\ pc = "exit"
    /\ exitCode = "1"

-----------------------------------------------------------------------------
(* C15 *)

\* C15: during a pass over well-nested input the path is, after every token, "/"
\* and the local names of the open elements joined by "/", outermost first: a
\* start tag is matched with its own name already appended, and after an end tag
\* the path is what it was before that element's start tag. Suppressed elements
\* are pushed and popped like the others.
C15_PathIsOpenElements == path = PathString(OpenStack(inp))

\* two levels inside a suppressed plugin element
C15_Witness ==
    /\ skip
    /\ pc = "frobnicate"
    /\ path = PluginPath \o <<"/", "a", "/", "b">>

-----------------------------------------------------------------------------
(* C16 and C20 *)

\* the attributes of the one start tag read, as they stand in the output
OutAttrs == Tokenize(outbytes \o encbuf)[1].attr

\* the modifications whose path is the path of the start tag read and whose
\* attribute is the name of its i-th attribute
Hits(i) ==
    {k \in 1..Len(modifications) :
        /\ modifications[k].path = PathString(<<inp[1].name>>)
        /\ modifications[k].attribute = <<inp[1].attr[i].name>>}

\* the i-th attribute repeats the name of an earlier attribute of the tag
Repeated(i) == \E j \in 1..(i - 1) : inp[1].attr[j].name = inp[1].attr[i].name

StartTagRead == Len(inp) = 1 /\ inp[1].kind = "start"

\* C16 as claimed: of several attributes with the same name only the first has
\* its value replaced; the later ones keep their values.
C16_FirstWins ==
    StartTagRead =>
        \A i \in 1..Len(inp[1].attr) :
            Repeated(i) => OutAttrs[i].value = inp[1].attr[i].value

\* C16 as amended: every attribute of the tag whose name a matching modification
\* names has its value replaced, the repeated ones too, so all attributes of that
\* name end with the same value, a value of a matching modification.
C16_AllOccurrences ==
    StartTagRead =>
        /\ Len(OutAttrs) = Len(inp[1].attr)
        /\ \A i \in 1..Len(inp[1].attr) :
              /\ OutAttrs[i].name = inp[1].attr[i].name
              /\ Hits(i) # {} =>
                    /\ \E k \in Hits(i) : OutAttrs[i].value = modifications[k].value
                    /\ \A j \in 1..Len(inp[1].attr) :
                          inp[1].attr[j].name = inp[1].attr[i].name =>
                             OutAttrs[j].value = OutAttrs[i].value

\* a tag with x twice and a modification of x: both are replaced
C16_Witness ==
    /\ StartTagRead
    /\ Len(inp[1].attr) = 2
    /\ inp[1].attr[1].name = "x"
    /\ inp[1].attr[2].name = "x"
    /\ Hits(1) # {}
    /\ OutAttrs[1].value # <<"1">>
    /\ OutAttrs[2].value # <<"1">>

\* the last modification of the list that hits the i-th attribute
LastHit(i) == CHOOSE k \in Hits(i) : \A m \in Hits(i) : m <= k

\* C20: when several modifications have the path of the element and the name of
\* one of its attributes, the attribute has in the output the value of the last
\* of them in list order; an attribute no modification names keeps its value.
C20_LastModificationWins ==
    StartTagRead =>
        \A i \in 1..Len(inp[1].attr) :
            OutAttrs[i].value =
                IF Hits(i) = {} THEN inp[1].attr[i].value
                ELSE modifications[LastHit(i)].value

\* two modifications of the same attribute with different values
C20_Witness ==
    /\ StartTagRead
    /\ Len(inp[1].attr) >= 1
    /\ Hits(1) = {1, 2}
    /\ modifications[1].value # modifications[2].value
    /\ OutAttrs[1].value = modifications[2].value

-----------------------------------------------------------------------------
(* C17 *)

\* C17 as claimed: on well-formed input the self-closing branch always finds the
\* '>' of the element's start tag as the last byte of the output, so the pass
\* never ends in panic("expected > token as last byte in output").
C17_NoPanic == WellFormedInput => exitCode # "panic"

-----------------------------------------------------------------------------
(* C18 and C19 *)

\* some end tag of the input came when no element was open
EndWithNothingOpen ==
    \E i \in 1..Len(inp) :
        inp[i].kind = "end" /\ OpenStack(SubSeq(inp, 1, i - 1)) = <<>>

\* C18 as claimed: an end tag that comes when no element is open makes frobnicate
\* return an error; the path is never truncated at index -1, which is a crash.
C18_NoPopOnEmpty == EndWithNothingOpen => (ret = "err" /\ exitCode # "panic")

\* C19 as claimed: when frobnicate returns successfully the path is empty and
\* every start tag has met its end tag.
C19_SuccessMeansBalanced == ret = "ok" => (path = <<>> /\ OpenStack(inp) = <<>>)
=============================================================================
